---- MODULE Spec2Model ----
(***************************************************************************)
(* The translation cache-and-parse pipeline of src-tauri/src/lib.rs:       *)
(* the response extractor, the flexible decoder, the translation           *)
(* orchestrator (openrouter_translate) and the word-lookup orchestrator    *)
(* (openrouter_word_lookup), over the two files they read and write        *)
(* (translation_cache.json, openrouter_key.txt) and the remote endpoint.   *)
(*                                                                         *)
(* Text is modelled at the level the code works at: a string is a          *)
(* sequence of units, a unit is a one-element tuple <<c>> for a character  *)
(* or, inside JSON, a three-element tuple <<name, kind, value>> for one    *)
(* object member ("name": value), which holds none of the characters the   *)
(* extractor looks for.  Offsets are 0-based as in Rust; None is -1.       *)
(***************************************************************************)
EXTENDS Integers, Sequences, FiniteSets, TLC

VARIABLES
    cacheFile,   \* translation_cache.json: [state, entries]
    keyFile,     \* openrouter_key.txt: [exists, text]
    pc,          \* per invocation slot: where the command stands
    args,        \* per slot: the command and its arguments
    cache,       \* per slot: the local `cache.entries` of openrouter_translate
    results,     \* per slot: the local `results` map, sid -> translation
    missing,     \* per slot: the local `missing` list
    parsed,      \* per slot: the local `parsed`, the decoded reply
    io,          \* per slot: the file and network operations done so far
    ret,         \* per slot: what the command returned
    calls,       \* the number of commands invoked so far
    prev,        \* per slot: the invocation that ended before the current one
    before,      \* per slot: translation_cache.json as it was at the invocation
    persisted,   \* the (sid, text, model, code) tuples saves have made entries for
    known,       \* per slot: persisted, as it was at the invocation
    input,       \* the argument of the pure function a specification applies
    extracted,   \* <<>> before the call, <<result>> after it
    booksFile,   \* recent_books.json: [state, books]
    vocabFile,   \* vocabulary.json: [state, entries]
    last         \* the last command on one of these two files, and the file before it

orchVars == <<cacheFile, keyFile, pc, args, cache, results, missing, parsed,
              io, ret, calls, prev, before, persisted, known>>
extractVars == <<input, extracted>>
storeVars == <<booksFile, vocabFile, last>>
vars == <<cacheFile, keyFile, pc, args, cache, results, missing, parsed,
          io, ret, calls, prev, before, persisted, known, input, extracted,
          booksFile, vocabFile, last>>

----------------------------------------------------------------------------
(* Strings *)

None == -1

\* A string literal: S(<<"a", "b">>) is the string "ab".
S(chars) == [i \in 1..Len(chars) |-> <<chars[i]>>]

Min(set) == CHOOSE m \in set : \A n \in set : m <= n
Max(set) == CHOOSE m \in set : \A n \in set : m >= n

RECURSIVE Concat(_)
Concat(strs) == IF strs = <<>> THEN <<>> ELSE Head(strs) \o Concat(Tail(strs))

\* char::is_whitespace, over the characters of the model's alphabet
IsWhitespace(u) == u \in {<<" ">>, <<"\n">>}

RECURSIVE TrimStart(_)
TrimStart(s) ==
    IF s # <<>> /\ IsWhitespace(Head(s)) THEN TrimStart(Tail(s)) ELSE s

RECURSIVE TrimEnd(_)
TrimEnd(s) ==
    IF s # <<>> /\ IsWhitespace(s[Len(s)])
    THEN TrimEnd(SubSeq(s, 1, Len(s) - 1))
    ELSE s

\* str::trim
Trim(s) == TrimEnd(TrimStart(s))

\* &s[from..to] and &s[from..]
Slice(s, from, to) == SubSeq(s, from + 1, to)
SliceFrom(s, from) == SubSeq(s, from + 1, Len(s))

MatchAt(s, pat, i) ==
    /\ i >= 0
    /\ i + Len(pat) <= Len(s)
    /\ Slice(s, i, i + Len(pat)) = pat

\* str::starts_with
StartsWith(s, pat) == MatchAt(s, pat, 0)

Occurrences(s, pat) == {i \in 0..(Len(s) - Len(pat)) : MatchAt(s, pat, i)}

\* str::find and str::rfind: the offset of the first (last) match, or None
Find(s, pat) ==
    IF Occurrences(s, pat) = {} THEN None ELSE Min(Occurrences(s, pat))
RFind(s, pat) ==
    IF Occurrences(s, pat) = {} THEN None ELSE Max(Occurrences(s, pat))

\* The backtick character (the module's lexer reserves the character itself).
BackTick == "bt"

Fence == S(<<BackTick, BackTick, BackTick>>)
JsonFence == S(<<BackTick, BackTick, BackTick, "j", "s", "o", "n">>)
FenceNewline == S(<<BackTick, BackTick, BackTick, "\n">>)

----------------------------------------------------------------------------
(* Response extractor, array mode *)

\* lines 363-372: the block after the first json-tagged fence, <<>> when the code falls
\* through, <<result>> when it returns
ExtractTaggedBlock(trimmed) ==
    LET start == Find(trimmed, JsonFence) IN
    IF start = None THEN <<>>
    ELSE
        LET rest == SliceFrom(trimmed, start)
            end == IF Find(rest, FenceNewline) # None
                   THEN Find(rest, FenceNewline)
                   ELSE RFind(rest, Fence)
            json_start == start + 7
            json_end == start + end
        IN  IF end # None /\ json_start < json_end
            THEN <<Trim(Slice(trimmed, json_start, json_end))>>
            ELSE <<>>

\* lines 374-385: the first generic fenced block
ExtractGenericBlock(trimmed) ==
    LET start == Find(trimmed, Fence) IN
    IF start = None THEN <<>>
    ELSE
        LET after_tick == SliceFrom(trimmed, start + 3)
            end == Find(after_tick, Fence)
        IN  IF end = None THEN <<>>
            ELSE
                LET block_content == Slice(after_tick, 0, end)
                    newline == Find(block_content, S(<<"\n">>))
                IN  IF newline # None
                    THEN <<Trim(SliceFrom(block_content, newline + 1))>>
                    ELSE <<Trim(block_content)>>

\* lines 387-394: the span from the first [ to the last ]
ExtractBracketSpan(trimmed) ==
    LET start == Find(trimmed, S(<<"[">>))
        end == RFind(trimmed, S(<<"]">>))
    IN  IF start # None /\ end # None /\ start < end
        THEN <<Slice(trimmed, start, end + 1)>>
        ELSE <<>>

extract_json_array(content) ==
    LET trimmed == Trim(content) IN
    IF StartsWith(trimmed, S(<<"[">>)) THEN trimmed
    ELSE IF ExtractTaggedBlock(trimmed) # <<>> THEN ExtractTaggedBlock(trimmed)[1]
    ELSE IF ExtractGenericBlock(trimmed) # <<>> THEN ExtractGenericBlock(trimmed)[1]
    ELSE IF ExtractBracketSpan(trimmed) # <<>> THEN ExtractBracketSpan(trimmed)[1]
    ELSE trimmed

----------------------------------------------------------------------------
(* Response extractor, object mode *)

\* lines 754-761: the span from the first { to the last }
ExtractBraceSpan(trimmed) ==
    LET start == Find(trimmed, S(<<"{">>))
        end == RFind(trimmed, S(<<"}">>))
    IN  IF start # None /\ end # None /\ start < end
        THEN <<Slice(trimmed, start, end + 1)>>
        ELSE <<>>

\* lines 744-752 are the text of lines 364-372 again: ExtractTaggedBlock
extract_json_object(content) ==
    LET trimmed == Trim(content) IN
    IF StartsWith(trimmed, S(<<"{">>)) THEN trimmed
    ELSE IF ExtractTaggedBlock(trimmed) # <<>> THEN ExtractTaggedBlock(trimmed)[1]
    ELSE IF ExtractBraceSpan(trimmed) # <<>> THEN ExtractBraceSpan(trimmed)[1]
    ELSE trimmed

----------------------------------------------------------------------------
(* Flexible decoder: serde_json::from_str into Vec<FlexibleTranslationResult> *)
(* and into WordLookupResult.  JSON text is [ { member , member } , ... ]    *)
(* with whitespace allowed between tokens; a member unit <<name, kind,     *)
(* value>> has kind "str" (a string), "null", "num" (a number) or "defs"   *)
(* (an array of {pos, meanings} objects).                                  *)

Member(name, kind, value) == <<name, kind, value>>
IsMember(u) == Len(u) = 3

\* The unit at 1-based position i, <<>> past the end
At(s, i) == IF i >= 1 /\ i <= Len(s) THEN s[i] ELSE <<>>

RECURSIVE SkipWhitespace(_, _)
SkipWhitespace(s, i) ==
    IF i <= Len(s) /\ IsWhitespace(s[i]) THEN SkipWhitespace(s, i + 1) ELSE i

ParseFailed == [ok |-> FALSE, next |-> 0, value |-> <<>>]

\* The members of one JSON object, from position i (just after its opening
\* brace); state is "first" (member or close), "after" (comma or close) or
\* "need" (member, after a comma).
RECURSIVE ParseMembers(_, _, _, _)
ParseMembers(s, i, state, acc) ==
    LET j == SkipWhitespace(s, i)
        u == At(s, j)
    IN  IF u = <<"}">> /\ state \in {"first", "after"}
        THEN [ok |-> TRUE, next |-> j + 1, value |-> acc]
        ELSE IF u = <<",">> /\ state = "after"
        THEN ParseMembers(s, j + 1, "need", acc)
        ELSE IF IsMember(u) /\ state \in {"first", "need"}
        THEN ParseMembers(s, j + 1, "after", Append(acc, u))
        ELSE ParseFailed

\* The objects of one JSON array, from position i (just after its opening
\* bracket); each object is the sequence of its members.
RECURSIVE ParseObjects(_, _, _, _)
ParseObjects(s, i, state, acc) ==
    LET j == SkipWhitespace(s, i)
        u == At(s, j)
    IN  IF u = <<"]">> /\ state \in {"first", "after"}
        THEN [ok |-> TRUE, next |-> j + 1, value |-> acc]
        ELSE IF u = <<",">> /\ state = "after"
        THEN ParseObjects(s, j + 1, "need", acc)
        ELSE IF u = <<"{">> /\ state \in {"first", "need"}
        THEN LET obj == ParseMembers(s, j + 1, "first", <<>>) IN
             IF obj.ok
             THEN ParseObjects(s, obj.next, "after", Append(acc, obj.value))
             ELSE ParseFailed
        ELSE ParseFailed

\* A whole JSON document that is an array of objects: nothing but whitespace
\* may follow the closing bracket.
ParseJsonArray(s) ==
    LET j == SkipWhitespace(s, 1) IN
    IF At(s, j) # <<"[">> THEN ParseFailed
    ELSE LET arr == ParseObjects(s, j + 1, "first", <<>>) IN
         IF arr.ok /\ SkipWhitespace(s, arr.next) = Len(s) + 1
         THEN arr ELSE ParseFailed

\* A whole JSON document that is one object.
ParseJsonObject(s) ==
    LET j == SkipWhitespace(s, 1) IN
    IF At(s, j) # <<"{">> THEN ParseFailed
    ELSE LET obj == ParseMembers(s, j + 1, "first", <<>>) IN
         IF obj.ok /\ SkipWhitespace(s, obj.next) = Len(s) + 1
         THEN obj ELSE ParseFailed

\* A decoder which knows the field under its own name only
TranslationNameOnly == {"translation"}

\* lines 27-32: the names the translated text may arrive under
TranslationAliases == {"translation", "translated_text", "text", "translated"}

MembersNamed(members, names) == SelectSeq(members, LAMBDA m : m[1] \in names)

\* One object as a FlexibleTranslationResult: sid is a required string, the
\* translation an optional string (absent or null is None, <<>> here); serde
\* rejects a field given twice, under whichever alias.
DecodeFlexible(members) ==
    LET sids == MembersNamed(members, {"sid"})
        trs == MembersNamed(members, TranslationAliases)
    IN  IF /\ Len(sids) = 1 /\ sids[1][2] = "str"
           /\ Len(trs) <= 1
           /\ \A k \in 1..Len(trs) : trs[k][2] \in {"str", "null"}
        THEN [ok |-> TRUE,
              sid |-> sids[1][3],
              translation |-> IF Len(trs) = 1 /\ trs[1][2] = "str"
                              THEN <<trs[1][3]>> ELSE <<>>]
        ELSE [ok |-> FALSE, sid |-> <<>>, translation |-> <<>>]

\* lines 342-350: the items that carry a translation, in order
RECURSIVE FilterTranslated(_)
FilterTranslated(items) ==
    IF items = <<>> THEN <<>>
    ELSE LET item == DecodeFlexible(Head(items)) IN
         IF item.translation # <<>>
         THEN <<[sid |-> item.sid, translation |-> item.translation[1]]>>
              \o FilterTranslated(Tail(items))
         ELSE FilterTranslated(Tail(items))

\* Result<Vec<TranslationResult>, String>: ok with the results, or an error
parse_translation_json(content) ==
    LET json_content == extract_json_array(content)
        arr == ParseJsonArray(json_content)
    IN  IF arr.ok /\ \A k \in 1..Len(arr.value) : DecodeFlexible(arr.value[k]).ok
        THEN [ok |-> TRUE, items |-> FilterTranslated(arr.value)]
        ELSE [ok |-> FALSE, items |-> <<>>]

\* lines 212-216: one object as a WordLookupResult: definitions is a
\* required array, phonetic an optional string
DecodeWordLookup(members) ==
    LET phs == MembersNamed(members, {"phonetic"})
        defs == MembersNamed(members, {"definitions"})
    IN  IF /\ Len(defs) = 1 /\ defs[1][2] = "defs"
           /\ Len(phs) <= 1
           /\ \A k \in 1..Len(phs) : phs[k][2] \in {"str", "null"}
        THEN [ok |-> TRUE,
              phonetic |-> IF Len(phs) = 1 /\ phs[1][2] = "str"
                           THEN <<phs[1][3]>> ELSE <<>>,
              definitions |-> defs[1][3]]
        ELSE [ok |-> FALSE, phonetic |-> <<>>, definitions |-> <<>>]

\* lines 514-518: extract the object, decode it strictly
parse_word_lookup(content) ==
    LET json_content == extract_json_object(content)
        obj == ParseJsonObject(json_content)
    IN  IF obj.ok THEN DecodeWordLookup(obj.value)
        ELSE [ok |-> FALSE, phonetic |-> <<>>, definitions |-> <<>>]

----------------------------------------------------------------------------
(* Fingerprint *)

\* lines 407-412: the SHA-256 hex digest, here its first four digits, of the
\* texts the model uses (sha256("") = e3b0c442..., sha256("t") = e3b98a4d...)
hash_source_text(text) ==
    CASE text = <<>> -> S(<<"e", "3", "b", "0">>)
      [] text = S(<<"t">>) -> S(<<"e", "3", "b", "9">>)

\* lines 414-416: sid.split(':').next()
extract_doc_id(sid) ==
    IF Find(sid, S(<<":">>)) = None THEN sid
    ELSE Slice(sid, 0, Find(sid, S(<<":">>)))

\* A key that leaves the language code out
cache_key_without_code(sid, text, model, code) ==
    Concat(<<extract_doc_id(sid), S(<<"|">>), sid, S(<<"|">>),
             hash_source_text(text), S(<<"|">>), model>>)

\* lines 431-438: the closure cache_key, with the model and the language code
\* it captures
cache_key(sid, text, model, code) ==
    Concat(<<extract_doc_id(sid), S(<<"|">>), sid, S(<<"|">>),
             hash_source_text(text), S(<<"|">>), model, S(<<"|">>), code>>)

----------------------------------------------------------------------------
(* Maps (HashMap<String, String>) *)

EmptyMap == [k \in {} |-> <<>>]
Insert(map, k, v) == (k :> v) @@ map
Has(map, k) == k \in DOMAIN map

----------------------------------------------------------------------------
(* The inputs of the commands and the replies of the remote endpoint *)

MaxSentences == 2
MaxRecords == 2
MaxCalls == 2

Sids == {S(<<"a">>), S(<<"d", ":", "b">>)}
Texts == {<<>>, S(<<"t">>)}
Models == {S(<<"m">>), S(<<"n">>)}
LanguageCodes == {S(<<"e", "n">>)}
Translations == {S(<<"x">>), S(<<"y">>)}
Words == {S(<<"w">>)}

SeqsUpTo(set, n) == UNION {[1..k -> set] : k \in 0..n}

Sentences == [sid : Sids, text : Texts]

\* A request's sentences: ids are unique within one request (data model)
SentenceLists ==
    {l \in SeqsUpTo(Sentences, MaxSentences) :
        \A i, j \in 1..Len(l) : l[i].sid = l[j].sid => i = j}

\* JSON text of an object and of an array
RECURSIVE Joined(_)
Joined(strs) ==
    IF strs = <<>> THEN <<>>
    ELSE IF Len(strs) = 1 THEN strs[1]
    ELSE strs[1] \o S(<<",">>) \o Joined(Tail(strs))

ObjectText(members) ==
    S(<<"{">>) \o Joined([k \in 1..Len(members) |-> <<members[k]>>]) \o S(<<"}">>)
ArrayText(objects) ==
    S(<<"[">>) \o Joined([k \in 1..Len(objects) |-> ObjectText(objects[k])])
               \o S(<<"]">>)

\* The records a reply may hold: a translation for any sid, or a record
\* without translated text
ReplyObjects ==
    {<<Member("sid", "str", sid), Member("translation", "str", tr)>> :
        sid \in Sids, tr \in Translations}
    \cup {<<Member("sid", "str", S(<<"a">>))>>}

\* How the model dresses its JSON: bare, in a json-tagged fence, after prose
Dressed(json) ==
    { json,
      JsonFence \o S(<<"\n">>) \o json \o S(<<"\n">>) \o Fence,
      S(<<"x", " ">>) \o json }

\* choices[0].message.content of a translation reply (lines 322-330)
Replies ==
    UNION {Dressed(ArrayText(objs)) : objs \in SeqsUpTo(ReplyObjects, MaxRecords)}
    \cup {S(<<"x">>), ObjectText(<<Member("sid", "str", S(<<"a">>))>>)}

\* choices[0].message.content of a word-lookup reply
LookupReplies ==
    UNION {Dressed(ObjectText(ms)) :
             ms \in {<<Member("phonetic", "str", S(<<"p">>)),
                       Member("definitions", "defs", S(<<"n">>))>>,
                     <<Member("definitions", "defs", S(<<"n">>))>>,
                     <<Member("phonetic", "str", S(<<"p">>))>>}}
    \cup {S(<<"x">>)}

\* What the decoder makes of each reply (evaluated once, then looked up)
DecodedReply == [c \in Replies |-> parse_translation_json(c)]
DecodedLookup == [c \in LookupReplies |-> parse_word_lookup(c)]

\* The contents openrouter_key.txt may have
KeyFiles ==
    { [exists |-> FALSE, text |-> <<>>],
      [exists |-> TRUE, text |-> <<>>],
      [exists |-> TRUE, text |-> S(<<"\n">>)],
      [exists |-> TRUE, text |-> S(<<"k", "\n">>)] }

----------------------------------------------------------------------------
(* Files *)

\* lines 104-113: an absent file is an empty cache; a file that is not the
\* JSON of a cache is an error
load_cache(file) ==
    IF file.state = "absent" THEN [ok |-> TRUE, entries |-> EmptyMap]
    ELSE IF file.state = "valid" THEN [ok |-> TRUE, entries |-> file.entries]
    ELSE [ok |-> FALSE, entries |-> EmptyMap]

\* lines 115-122: fs::write creates or truncates the file, then writes.  It
\* succeeds, or fails before the file is touched (the directory or the file
\* cannot be created), or fails after truncating it (the write itself fails).
SaveOutcomes == {"written", "untouched", "truncated"}
save_cache(file, entries, outcome) ==
    IF outcome = "written" THEN [state |-> "valid", entries |-> entries]
    ELSE IF outcome = "untouched" THEN file
    ELSE [state |-> "corrupt", entries |-> EmptyMap]

\* A loader which does not reject a key that is empty after trimming
load_openrouter_key_unchecked(file) ==
    IF ~file.exists THEN [ok |-> FALSE, key |-> <<>>]
    ELSE [ok |-> TRUE, key |-> Trim(file.text)]

\* lines 124-133
load_openrouter_key(file) ==
    IF ~file.exists THEN [ok |-> FALSE, key |-> <<>>]
    ELSE IF Trim(file.text) = <<>> THEN [ok |-> FALSE, key |-> <<>>]
    ELSE [ok |-> TRUE, key |-> Trim(file.text)]

----------------------------------------------------------------------------
(* openrouter_translate, lines 419-499 *)

Procs == {1, 2}
\* The slots of Spec, where no two invocations overlap
SeqProcs == {1}

NoArgs == [cmd |-> "none", model |-> <<>>, code |-> <<>>, sentences |-> <<>>,
           word |-> <<>>]
NoParse == [ok |-> FALSE, items |-> <<>>]
NoLookup == [ok |-> FALSE, phonetic |-> <<>>, definitions |-> <<>>]
NoReturn == [status |-> "none", error |-> "", output |-> <<>>, lookup |-> NoLookup]
NoPrev == [args |-> NoArgs, ret |-> NoReturn, io |-> <<>>, missing |-> <<>>]
NoFile == [state |-> "absent", entries |-> EmptyMap]

Ok(output) == [status |-> "ok", error |-> "", output |-> output, lookup |-> NoLookup]
Err(kind) == [status |-> "err", error |-> kind, output |-> <<>>, lookup |-> NoLookup]

\* One file or network operation: what was done (for a request, with which
\* prompt and which sentences; for the key, the file as it was read) and how
\* it ended
IoEvent(op, prompt, payload, outcome) ==
    [op |-> op, prompt |-> prompt, payload |-> payload, outcome |-> outcome]

\* A partition which treats every sentence as a miss
MissesEverything(sentences, entries, model, code) == sentences

\* lines 443-452: the sentences whose key the cache lacks, in order
RECURSIVE Misses(_, _, _, _)
Misses(sentences, entries, model, code) ==
    IF sentences = <<>> THEN <<>>
    ELSE LET s == Head(sentences) IN
         IF Has(entries, cache_key(s.sid, s.text, model, code))
         THEN Misses(Tail(sentences), entries, model, code)
         ELSE <<s>> \o Misses(Tail(sentences), entries, model, code)

\* lines 443-452: results after the loop, one insert per cache hit
RECURSIVE Hits(_, _, _, _, _)
Hits(sentences, entries, model, code, acc) ==
    IF sentences = <<>> THEN acc
    ELSE LET s == Head(sentences)
             key == cache_key(s.sid, s.text, model, code)
         IN  Hits(Tail(sentences), entries, model, code,
                  IF Has(entries, key) THEN Insert(acc, s.sid, entries[key])
                  ELSE acc)

\* A lookup which never finds the sentence
SourceTextNotFound(miss, sid) == <<>>

\* lines 475-479: the text of the first missing sentence with this sid, or ""
SourceText(miss, sid) ==
    LET found == SelectSeq(miss, LAMBDA s : s.sid = sid) IN
    IF found # <<>> THEN found[1].text ELSE <<>>

\* lines 474-484: the loop over the decoded translations; acc is
\* [cache, results]
RECURSIVE MergeTranslations(_, _, _, _, _)
MergeTranslations(translations, miss, model, code, acc) ==
    IF translations = <<>> THEN acc
    ELSE LET item == Head(translations)
             key == cache_key(item.sid, SourceText(miss, item.sid), model, code)
         IN  MergeTranslations(Tail(translations), miss, model, code,
                 [cache |-> Insert(acc.cache, key, item.translation),
                  results |-> Insert(acc.results, item.sid, item.translation)])

\* lines 474-484: the (sid, text, model, code) tuples the loop makes entries for
MergedTuples(translations, miss, model, code) ==
    {<<translations[k].sid, SourceText(miss, translations[k].sid), model, code>> :
        k \in 1..Len(translations)}

\* An output built from the last sentence to the first
RECURSIVE AssembleBackwards(_, _)
AssembleBackwards(sentences, res) ==
    IF sentences = <<>> THEN <<>>
    ELSE LET s == Head(sentences) IN
         IF Has(res, s.sid)
         THEN AssembleBackwards(Tail(sentences), res)
              \o <<[sid |-> s.sid, translation |-> res[s.sid]]>>
         ELSE AssembleBackwards(Tail(sentences), res)

\* An output with an entry, possibly empty, for every sentence
AssembleEverySentence(sentences, res) ==
    [k \in 1..Len(sentences) |->
        [sid |-> sentences[k].sid,
         translation |-> IF Has(res, sentences[k].sid)
                         THEN res[sentences[k].sid] ELSE <<>>]]

\* lines 488-498: the output, in the order of the input sentences
RECURSIVE Assemble(_, _)
Assemble(sentences, res) ==
    IF sentences = <<>> THEN <<>>
    ELSE LET s == Head(sentences) IN
         IF Has(res, s.sid)
         THEN <<[sid |-> s.sid, translation |-> res[s.sid]]>>
              \o Assemble(Tail(sentences), res)
         ELSE Assemble(Tail(sentences), res)

Free(p) == pc[p] \in {"idle", "done"}

\* What a slot remembers of the invocation that just ended in it, when the
\* invocation that starts repeats it (same command, same arguments)
Ended(p, a) ==
    IF pc[p] = "done" /\ args[p] = a
    THEN [args |-> args[p], ret |-> ret[p], io |-> io[p], missing |-> missing[p]]
    ELSE NoPrev

\* The command is invoked: a new invocation starts in slot p
Invoke(p, a) ==
    /\ Free(p)
    /\ calls < MaxCalls
    /\ calls' = calls + 1
    /\ prev' = [prev EXCEPT ![p] = Ended(p, a)]
    /\ before' = [before EXCEPT ![p] = cacheFile]
    /\ known' = [known EXCEPT ![p] = persisted]
    /\ args' = [args EXCEPT ![p] = a]
    /\ cache' = [cache EXCEPT ![p] = EmptyMap]
    /\ results' = [results EXCEPT ![p] = EmptyMap]
    /\ missing' = [missing EXCEPT ![p] = <<>>]
    /\ parsed' = [parsed EXCEPT ![p] = NoParse]
    /\ io' = [io EXCEPT ![p] = <<>>]
    /\ UNCHANGED <<cacheFile, keyFile, persisted, input, extracted, storeVars>>

\* A call without the early return on an empty list
TranslateWithoutEmptyCheck(p) ==
    \E model \in Models, code \in LanguageCodes, sentences \in SentenceLists :
        /\ Invoke(p, [cmd |-> "translate", model |-> model, code |-> code,
                      sentences |-> sentences, word |-> <<>>])
        /\ ret' = [ret EXCEPT ![p] = NoReturn]
        /\ pc' = [pc EXCEPT ![p] = "load_cache"]

\* lines 419-428: the call, and the early return on an empty list
Translate(p) ==
    \E model \in Models, code \in LanguageCodes, sentences \in SentenceLists :
        /\ Invoke(p, [cmd |-> "translate", model |-> model, code |-> code,
                      sentences |-> sentences, word |-> <<>>])
        /\ IF sentences = <<>>
           THEN /\ ret' = [ret EXCEPT ![p] = Ok(<<>>)]
                /\ pc' = [pc EXCEPT ![p] = "done"]
           ELSE /\ ret' = [ret EXCEPT ![p] = NoReturn]
                /\ pc' = [pc EXCEPT ![p] = "load_cache"]

\* A load that goes on to the key also when nothing is missing
LoadCacheThenKey(p) ==
    /\ pc[p] = "load_cache"
    /\ LET a == args[p]
           loaded == load_cache(cacheFile)
           miss == Misses(a.sentences, loaded.entries, a.model, a.code)
           hits == Hits(a.sentences, loaded.entries, a.model, a.code, EmptyMap)
       IN  IF ~loaded.ok
           THEN /\ io' = [io EXCEPT ![p] =
                            Append(@, IoEvent("load_cache", "", <<cacheFile>>, "failed"))]
                /\ ret' = [ret EXCEPT ![p] = Err("cache")]
                /\ pc' = [pc EXCEPT ![p] = "done"]
                /\ UNCHANGED <<cache, results, missing>>
           ELSE /\ io' = [io EXCEPT ![p] =
                            Append(@, IoEvent("load_cache", "", <<cacheFile>>, "ok"))]
                /\ cache' = [cache EXCEPT ![p] = loaded.entries]
                /\ results' = [results EXCEPT ![p] = hits]
                /\ missing' = [missing EXCEPT ![p] = miss]
                /\ pc' = [pc EXCEPT ![p] = "load_key"]
                /\ UNCHANGED ret
    /\ UNCHANGED <<cacheFile, keyFile, args, parsed, calls, prev, before,
                   persisted, known, input, extracted, storeVars>>

\* lines 430-452 and, with no miss, 488-498
LoadCache(p) ==
    /\ pc[p] = "load_cache"
    /\ LET a == args[p]
           loaded == load_cache(cacheFile)
           miss == Misses(a.sentences, loaded.entries, a.model, a.code)
           hits == Hits(a.sentences, loaded.entries, a.model, a.code, EmptyMap)
       IN  IF ~loaded.ok
           THEN /\ io' = [io EXCEPT ![p] =
                            Append(@, IoEvent("load_cache", "", <<cacheFile>>, "failed"))]
                /\ ret' = [ret EXCEPT ![p] = Err("cache")]
                /\ pc' = [pc EXCEPT ![p] = "done"]
                /\ UNCHANGED <<cache, results, missing>>
           ELSE /\ io' = [io EXCEPT ![p] =
                            Append(@, IoEvent("load_cache", "", <<cacheFile>>, "ok"))]
                /\ cache' = [cache EXCEPT ![p] = loaded.entries]
                /\ results' = [results EXCEPT ![p] = hits]
                /\ missing' = [missing EXCEPT ![p] = miss]
                /\ IF miss = <<>>
                   THEN /\ ret' = [ret EXCEPT ![p] = Ok(Assemble(a.sentences, hits))]
                        /\ pc' = [pc EXCEPT ![p] = "done"]
                   ELSE /\ pc' = [pc EXCEPT ![p] = "load_key"]
                        /\ UNCHANGED ret
    /\ UNCHANGED <<cacheFile, keyFile, args, parsed, calls, prev, before,
                   persisted, known, input, extracted, storeVars>>

\* line 455
LoadKey(p) ==
    /\ pc[p] = "load_key"
    /\ IF load_openrouter_key(keyFile).ok
       THEN /\ io' = [io EXCEPT ![p] =
                        Append(@, IoEvent("load_key", "", <<keyFile>>, "ok"))]
            /\ pc' = [pc EXCEPT ![p] = "request"]
            /\ UNCHANGED ret
       ELSE /\ io' = [io EXCEPT ![p] =
                        Append(@, IoEvent("load_key", "", <<keyFile>>, "failed"))]
            /\ ret' = [ret EXCEPT ![p] = Err("credential")]
            /\ pc' = [pc EXCEPT ![p] = "done"]
    /\ UNCHANGED <<cacheFile, keyFile, args, cache, results, missing, parsed,
                   calls, prev, before, persisted, known, input, extracted, storeVars>>

\* request_openrouter, lines 290-331: the reply's content, or an error (the
\* request fails, the status is not 2xx, the body has no choices)
RemoteOutcomes(replies) ==
    {[ok |-> FALSE, content |-> <<>>]}
    \cup {[ok |-> TRUE, content |-> c] : c \in replies}

\* How a request ended, for the record of it
RequestOutcome(remote) ==
    IF ~remote.ok THEN "transport_error"
    ELSE IF DecodedReply[remote.content].ok THEN "decoded"
    ELSE "undecodable"

\* A request whose reply goes on to the save whether it decoded or not
RequestSavingUndecoded(p) ==
    /\ pc[p] = "request"
    /\ \E remote \in RemoteOutcomes(Replies) :
         /\ io' = [io EXCEPT ![p] = Append(@,
                     IoEvent("request", "first", missing[p], RequestOutcome(remote)))]
         /\ IF ~remote.ok
            THEN /\ ret' = [ret EXCEPT ![p] = Err("transport")]
                 /\ pc' = [pc EXCEPT ![p] = "done"]
                 /\ UNCHANGED parsed
            ELSE /\ parsed' = [parsed EXCEPT ![p] = DecodedReply[remote.content]]
                 /\ pc' = [pc EXCEPT ![p] = "save"]
                 /\ UNCHANGED ret
    /\ UNCHANGED <<cacheFile, keyFile, args, cache, results, missing, calls, prev,
                   before, persisted, known, input, extracted, storeVars>>

\* lines 456-460: the batch request for the misses, and its decoding
Request(p) ==
    /\ pc[p] = "request"
    /\ \E remote \in RemoteOutcomes(Replies) :
         /\ io' = [io EXCEPT ![p] = Append(@,
                     IoEvent("request", "first", missing[p], RequestOutcome(remote)))]
         /\ IF ~remote.ok
            THEN /\ ret' = [ret EXCEPT ![p] = Err("transport")]
                 /\ pc' = [pc EXCEPT ![p] = "done"]
                 /\ UNCHANGED parsed
            ELSE /\ parsed' = [parsed EXCEPT ![p] = DecodedReply[remote.content]]
                 /\ pc' = [pc EXCEPT ![p] =
                             IF DecodedReply[remote.content].ok
                             THEN "save" ELSE "retry"]
                 /\ UNCHANGED ret
    /\ UNCHANGED <<cacheFile, keyFile, args, cache, results, missing, calls, prev,
                   before, persisted, known, input, extracted, storeVars>>

\* A retry which is repeated for as long as the reply cannot be decoded
RetryUntilDecoded(p) ==
    /\ pc[p] = "retry"
    /\ \E remote \in RemoteOutcomes(Replies) :
         /\ io' = [io EXCEPT ![p] = Append(@,
                     IoEvent("request", "strict", missing[p], RequestOutcome(remote)))]
         /\ IF ~remote.ok
            THEN /\ ret' = [ret EXCEPT ![p] = Err("transport")]
                 /\ pc' = [pc EXCEPT ![p] = "done"]
                 /\ UNCHANGED parsed
            ELSE /\ parsed' = [parsed EXCEPT ![p] = DecodedReply[remote.content]]
                 /\ pc' = [pc EXCEPT ![p] =
                             IF DecodedReply[remote.content].ok
                             THEN "save" ELSE "retry"]
                 /\ UNCHANGED ret
    /\ UNCHANGED <<cacheFile, keyFile, args, cache, results, missing, calls, prev,
                   before, persisted, known, input, extracted, storeVars>>

\* lines 462-473: the one retry with the stricter prompt
Retry(p) ==
    /\ pc[p] = "retry"
    /\ \E remote \in RemoteOutcomes(Replies) :
         /\ io' = [io EXCEPT ![p] = Append(@,
                     IoEvent("request", "strict", missing[p], RequestOutcome(remote)))]
         /\ IF ~remote.ok
            THEN /\ ret' = [ret EXCEPT ![p] = Err("transport")]
                 /\ pc' = [pc EXCEPT ![p] = "done"]
                 /\ UNCHANGED parsed
            ELSE /\ parsed' = [parsed EXCEPT ![p] = DecodedReply[remote.content]]
                 /\ IF DecodedReply[remote.content].ok
                    THEN /\ pc' = [pc EXCEPT ![p] = "save"]
                         /\ UNCHANGED ret
                    ELSE /\ ret' = [ret EXCEPT ![p] = Err("parse")]
                         /\ pc' = [pc EXCEPT ![p] = "done"]
    /\ UNCHANGED <<cacheFile, keyFile, args, cache, results, missing, calls, prev,
                   before, persisted, known, input, extracted, storeVars>>

\* lines 474-498: merge the translations, save the cache, build the output
Save(p) ==
    /\ pc[p] = "save"
    /\ LET a == args[p]
           merged == MergeTranslations(parsed[p].items, missing[p], a.model, a.code,
                                       [cache |-> cache[p], results |-> results[p]])
       IN  /\ cache' = [cache EXCEPT ![p] = merged.cache]
           /\ results' = [results EXCEPT ![p] = merged.results]
           /\ \E outcome \in SaveOutcomes :
                /\ cacheFile' = save_cache(cacheFile, merged.cache, outcome)
                /\ io' = [io EXCEPT ![p] =
                            Append(@, IoEvent("save_cache", "", <<>>, outcome))]
                /\ IF outcome = "written"
                   THEN /\ ret' = [ret EXCEPT ![p] =
                                     Ok(Assemble(a.sentences, merged.results))]
                        /\ persisted' = persisted \cup
                              MergedTuples(parsed[p].items, missing[p], a.model, a.code)
                   ELSE /\ ret' = [ret EXCEPT ![p] = Err("persistence")]
                        /\ UNCHANGED persisted
    /\ pc' = [pc EXCEPT ![p] = "done"]
    /\ UNCHANGED <<keyFile, args, missing, parsed, calls, prev, before, known,
                   input, extracted, storeVars>>

----------------------------------------------------------------------------
(* openrouter_word_lookup, lines 501-521 *)

\* line 502: the call
WordLookup(p) ==
    \E model \in Models, code \in LanguageCodes, word \in Words :
        /\ Invoke(p, [cmd |-> "lookup", model |-> model, code |-> code,
                      sentences |-> <<>>, word |-> word])
        /\ ret' = [ret EXCEPT ![p] = NoReturn]
        /\ pc' = [pc EXCEPT ![p] = "lookup_key"]

\* line 508
LookupLoadKey(p) ==
    /\ pc[p] = "lookup_key"
    /\ IF load_openrouter_key(keyFile).ok
       THEN /\ io' = [io EXCEPT ![p] =
                        Append(@, IoEvent("load_key", "", <<keyFile>>, "ok"))]
            /\ pc' = [pc EXCEPT ![p] = "lookup_request"]
            /\ UNCHANGED ret
       ELSE /\ io' = [io EXCEPT ![p] =
                        Append(@, IoEvent("load_key", "", <<keyFile>>, "failed"))]
            /\ ret' = [ret EXCEPT ![p] = Err("credential")]
            /\ pc' = [pc EXCEPT ![p] = "done"]
    /\ UNCHANGED <<cacheFile, keyFile, args, cache, results, missing, parsed,
                   calls, prev, before, persisted, known, input, extracted, storeVars>>

\* How a lookup request ended, for the record of it
LookupOutcome(remote) ==
    IF ~remote.ok THEN "transport_error"
    ELSE IF DecodedLookup[remote.content].ok THEN "decoded"
    ELSE "undecodable"

\* A lookup request which is repeated when its reply cannot be decoded
LookupRequestRetried(p) ==
    /\ pc[p] = "lookup_request"
    /\ \E remote \in RemoteOutcomes(LookupReplies) :
         /\ io' = [io EXCEPT ![p] = Append(@,
                     IoEvent("request", "lookup", <<>>, LookupOutcome(remote)))]
         /\ IF remote.ok /\ ~DecodedLookup[remote.content].ok
            THEN /\ UNCHANGED <<ret, pc>>
            ELSE /\ ret' = [ret EXCEPT ![p] =
                              IF ~remote.ok THEN Err("transport")
                              ELSE [status |-> "ok", error |-> "", output |-> <<>>,
                                    lookup |-> DecodedLookup[remote.content]]]
                 /\ pc' = [pc EXCEPT ![p] = "done"]
    /\ UNCHANGED <<cacheFile, keyFile, args, cache, results, missing, parsed,
                   calls, prev, before, persisted, known, input, extracted, storeVars>>

\* lines 509-520: the one request, and the strict decoding of its reply
LookupRequest(p) ==
    /\ pc[p] = "lookup_request"
    /\ \E remote \in RemoteOutcomes(LookupReplies) :
         /\ io' = [io EXCEPT ![p] = Append(@,
                     IoEvent("request", "lookup", <<>>, LookupOutcome(remote)))]
         /\ ret' = [ret EXCEPT ![p] =
                      IF ~remote.ok THEN Err("transport")
                      ELSE IF DecodedLookup[remote.content].ok
                      THEN [status |-> "ok", error |-> "", output |-> <<>>,
                            lookup |-> DecodedLookup[remote.content]]
                      ELSE Err("parse")]
    /\ pc' = [pc EXCEPT ![p] = "done"]
    /\ UNCHANGED <<cacheFile, keyFile, args, cache, results, missing, parsed,
                   calls, prev, before, persisted, known, input, extracted, storeVars>>

----------------------------------------------------------------------------
(* The credential collaborator: openrouter_key.txt lives in external       *)
(* storage, and is written, emptied or removed there between two commands. *)

KeyFileChanges ==
    /\ \A p \in Procs : Free(p)
    /\ calls > 0
    /\ calls < MaxCalls
    /\ \E file \in KeyFiles :
         /\ file # keyFile
         /\ keyFile' = file
    /\ UNCHANGED <<cacheFile, pc, args, cache, results, missing, parsed, io,
                   ret, calls, prev, before, persisted, known, input, extracted, storeVars>>

----------------------------------------------------------------------------
(* Recent books, lines 606-712, and the vocabulary, lines 69-102 and        *)
(* 524-567.  Each command loads its file, changes the list and writes the  *)
(* whole file back.  Of a book the model keeps id, file_path, last_page    *)
(* (progress is assigned with it) and last_opened_at; of a vocabulary      *)
(* entry, word and phonetic.  The other fields are stored and never read.  *)

\* lines 649 and 683: the list keeps 50 books; the model keeps RecentLimit
RecentLimit == 2

BookIds == {"b1", "b2", "b3"}
FilePaths == {"/p1", "/p2", "/p3"}
Pages == {1, 2}
\* Utc::now(): the wall clock; two readings can be equal, and the later one
\* can be the smaller
Times == {1, 2}

NoBooks == [state |-> "absent", books |-> <<>>]
NoVocabulary == [state |-> "absent", entries |-> <<>>]
NoCommand == [cmd |-> "none", id |-> "", file_path |-> "", word |-> <<>>,
              ret |-> "none", value |-> FALSE, before |-> <<>>]

\* lines 627-634
load_recent_books(file) ==
    IF file.state = "absent" THEN [ok |-> TRUE, books |-> <<>>]
    ELSE IF file.state = "valid" THEN [ok |-> TRUE, books |-> file.books]
    ELSE [ok |-> FALSE, books |-> <<>>]

\* lines 636-643: fs::write, as in save_cache
save_recent_books(file, books, outcome) ==
    IF outcome = "written" THEN [state |-> "valid", books |-> books]
    ELSE IF outcome = "untouched" THEN file
    ELSE [state |-> "corrupt", books |-> <<>>]

\* A retain that looks at the id only
RetainOtherIds(books, id, file_path) ==
    SelectSeq(books, LAMBDA b : b.id # id)

\* line 664: retain(|b| b.id != id && b.file_path != file_path)
RetainOthers(books, id, file_path) ==
    SelectSeq(books, LAMBDA b : b.id # id /\ b.file_path # file_path)

\* lines 648 and 682: sort_by(|a, b| b.last_opened_at.cmp(&a.last_opened_at)),
\* a stable sort, the latest first
RECURSIVE SortByLastOpened(_)
SortByLastOpened(books) ==
    IF books = <<>> THEN <<>>
    ELSE LET latest == Max({books[k].last_opened_at : k \in 1..Len(books)})
         IN  SelectSeq(books, LAMBDA b : b.last_opened_at = latest)
             \o SortByLastOpened(SelectSeq(books, LAMBDA b : b.last_opened_at # latest))

\* line 683: Vec::truncate
Truncate(books, n) == SubSeq(books, 1, Min({Len(books), n}))

\* lines 651-687
AddRecentBook ==
    \E id \in BookIds, file_path \in FilePaths, now \in Times,
       outcome \in SaveOutcomes :
        LET loaded == load_recent_books(booksFile)
            book == [id |-> id, file_path |-> file_path, last_page |-> 1,
                     last_opened_at |-> now]
            kept == Truncate(SortByLastOpened(
                        Append(RetainOthers(loaded.books, id, file_path), book)),
                        RecentLimit)
            cmd == [NoCommand EXCEPT !.cmd = "add_recent_book", !.id = id,
                                     !.file_path = file_path]
        IN  /\ IF ~loaded.ok
               THEN /\ last' = [cmd EXCEPT !.ret = "err"]
                    /\ UNCHANGED booksFile
               ELSE /\ booksFile' = save_recent_books(booksFile, kept, outcome)
                    /\ last' = [cmd EXCEPT
                                  !.ret = IF outcome = "written" THEN "ok" ELSE "err",
                                  !.before = loaded.books]
            /\ UNCHANGED <<vocabFile, input, extracted>>
            /\ UNCHANGED orchVars

\* lines 697-701: the first book with this id gets the page and the time
UpdateFirst(books, id, last_page, now) ==
    LET found == {k \in 1..Len(books) : books[k].id = id} IN
    IF found = {} THEN books
    ELSE [books EXCEPT ![Min(found)] =
            [@ EXCEPT !.last_page = last_page, !.last_opened_at = now]]

\* lines 690-705
UpdateBookProgress ==
    \E id \in BookIds, last_page \in Pages, now \in Times,
       outcome \in SaveOutcomes :
        LET loaded == load_recent_books(booksFile)
            cmd == [NoCommand EXCEPT !.cmd = "update_book_progress", !.id = id]
        IN  /\ IF ~loaded.ok
               THEN /\ last' = [cmd EXCEPT !.ret = "err"]
                    /\ UNCHANGED booksFile
               ELSE /\ booksFile' = save_recent_books(booksFile,
                            UpdateFirst(loaded.books, id, last_page, now), outcome)
                    /\ last' = [cmd EXCEPT
                                  !.ret = IF outcome = "written" THEN "ok" ELSE "err",
                                  !.before = loaded.books]
            /\ UNCHANGED <<vocabFile, input, extracted>>
            /\ UNCHANGED orchVars

\* lines 708-712
RemoveRecentBook ==
    \E id \in BookIds, outcome \in SaveOutcomes :
        LET loaded == load_recent_books(booksFile)
            cmd == [NoCommand EXCEPT !.cmd = "remove_recent_book", !.id = id]
        IN  /\ IF ~loaded.ok
               THEN /\ last' = [cmd EXCEPT !.ret = "err"]
                    /\ UNCHANGED booksFile
               ELSE /\ booksFile' = save_recent_books(booksFile,
                            SelectSeq(loaded.books, LAMBDA b : b.id # id), outcome)
                    /\ last' = [cmd EXCEPT
                                  !.ret = IF outcome = "written" THEN "ok" ELSE "err",
                                  !.before = loaded.books]
            /\ UNCHANGED <<vocabFile, input, extracted>>
            /\ UNCHANGED orchVars

\* Words that differ in case only, and words that differ
VocabularyWords ==
    {S(<<"a", "b">>), S(<<"A", "b">>), S(<<"A", "B">>), S(<<"b">>), S(<<"B">>)}
\* Option<String>: None is <<>>
Phonetics == {<<>>, <<S(<<"p">>)>>}

\* A comparison key that keeps the case
to_lowercase_unchanged(word) == word

\* str::to_lowercase, on the letters of VocabularyWords
to_lowercase(word) ==
    [i \in 1..Len(word) |->
        CASE word[i] = <<"A">> -> <<"a">>
          [] word[i] = <<"B">> -> <<"b">>
          [] OTHER -> word[i]]

\* lines 86-93
load_vocabulary(file) ==
    IF file.state = "absent" THEN [ok |-> TRUE, entries |-> <<>>]
    ELSE IF file.state = "valid" THEN [ok |-> TRUE, entries |-> file.entries]
    ELSE [ok |-> FALSE, entries |-> <<>>]

\* lines 95-102: fs::write, as in save_cache
save_vocabulary(file, entries, outcome) ==
    IF outcome = "written" THEN [state |-> "valid", entries |-> entries]
    ELSE IF outcome = "untouched" THEN file
    ELSE [state |-> "corrupt", entries |-> <<>>]

\* lines 534 and 566: any(|e| e.word.to_lowercase() == word_lower)
AnyEntry(entries, word) ==
    \E k \in 1..Len(entries) : to_lowercase(entries[k].word) = to_lowercase(word)

\* lines 563-567
is_word_in_vocabulary(file, word) ==
    IF ~load_vocabulary(file).ok THEN [ok |-> FALSE, value |-> FALSE]
    ELSE [ok |-> TRUE, value |-> AnyEntry(load_vocabulary(file).entries, word)]

\* lines 524-546
AddVocabularyWord ==
    \E word \in VocabularyWords, phonetic \in Phonetics, outcome \in SaveOutcomes :
        LET loaded == load_vocabulary(vocabFile)
            cmd == [NoCommand EXCEPT !.cmd = "add_vocabulary_word", !.word = word]
        IN  /\ IF ~loaded.ok
               THEN /\ last' = [cmd EXCEPT !.ret = "err"]
                    /\ UNCHANGED vocabFile
               ELSE IF AnyEntry(loaded.entries, word)
               THEN /\ last' = [cmd EXCEPT !.ret = "ok", !.before = loaded.entries]
                    /\ UNCHANGED vocabFile
               ELSE /\ vocabFile' = save_vocabulary(vocabFile,
                            Append(loaded.entries,
                                   [word |-> word, phonetic |-> phonetic]), outcome)
                    /\ last' = [cmd EXCEPT
                                  !.ret = IF outcome = "written" THEN "ok" ELSE "err",
                                  !.before = loaded.entries]
            /\ UNCHANGED <<booksFile, input, extracted>>
            /\ UNCHANGED orchVars

\* lines 549-554
RemoveVocabularyWord ==
    \E word \in VocabularyWords, outcome \in SaveOutcomes :
        LET loaded == load_vocabulary(vocabFile)
            cmd == [NoCommand EXCEPT !.cmd = "remove_vocabulary_word", !.word = word]
        IN  /\ IF ~loaded.ok
               THEN /\ last' = [cmd EXCEPT !.ret = "err"]
                    /\ UNCHANGED vocabFile
               ELSE /\ vocabFile' = save_vocabulary(vocabFile,
                            SelectSeq(loaded.entries,
                                LAMBDA e : to_lowercase(e.word) # to_lowercase(word)),
                            outcome)
                    /\ last' = [cmd EXCEPT
                                  !.ret = IF outcome = "written" THEN "ok" ELSE "err",
                                  !.before = loaded.entries]
            /\ UNCHANGED <<booksFile, input, extracted>>
            /\ UNCHANGED orchVars

\* lines 563-567, as a command
IsWordInVocabulary ==
    \E word \in VocabularyWords :
        LET answer == is_word_in_vocabulary(vocabFile, word)
            cmd == [NoCommand EXCEPT !.cmd = "is_word_in_vocabulary", !.word = word]
        IN  /\ last' = [cmd EXCEPT !.ret = IF answer.ok THEN "ok" ELSE "err",
                                   !.value = answer.value,
                                   !.before = load_vocabulary(vocabFile).entries]
            /\ UNCHANGED <<booksFile, vocabFile, input, extracted>>
            /\ UNCHANGED orchVars

InitStore ==
    /\ booksFile = NoBooks
    /\ vocabFile = NoVocabulary
    /\ last = NoCommand

----------------------------------------------------------------------------
(* Spec: the commands invoked one after the other *)

InitOrch ==
    /\ cacheFile = NoFile
    /\ keyFile \in KeyFiles
    /\ pc = [p \in Procs |-> "idle"]
    /\ args = [p \in Procs |-> NoArgs]
    /\ cache = [p \in Procs |-> EmptyMap]
    /\ results = [p \in Procs |-> EmptyMap]
    /\ missing = [p \in Procs |-> <<>>]
    /\ parsed = [p \in Procs |-> NoParse]
    /\ io = [p \in Procs |-> <<>>]
    /\ ret = [p \in Procs |-> NoReturn]
    /\ calls = 0
    /\ prev = [p \in Procs |-> NoPrev]
    /\ before = [p \in Procs |-> NoFile]
    /\ persisted = {}
    /\ known = [p \in Procs |-> {}]
    /\ InitStore

Init ==
    /\ InitOrch
    /\ input = <<>>
    /\ extracted = <<>>

Next ==
    \/ \E p \in SeqProcs :
        \/ Translate(p)
        \/ LoadCache(p)
        \/ LoadKey(p)
        \/ Request(p)
        \/ Retry(p)
        \/ Save(p)
        \/ WordLookup(p)
        \/ LookupLoadKey(p)
        \/ LookupRequest(p)
    \/ KeyFileChanges

Spec == Init /\ [][Next]_vars

----------------------------------------------------------------------------
(* Properties of openrouter_translate and openrouter_word_lookup under Spec *)

\* The remote requests among the operations of an invocation
Requests(events) == SelectSeq(events, LAMBDA e : e.op = "request")
\* The key files an invocation read
KeysRead(events) ==
    LET loads == SelectSeq(events, LAMBDA e : e.op = "load_key")
    IN  [k \in 1..Len(loads) |-> loads[k].payload[1]]
SidsOf(entries) == [k \in 1..Len(entries) |-> entries[k].sid]
Range(seq) == {seq[k] : k \in 1..Len(seq)}
Translated(p) == pc[p] = "done" /\ args[p].cmd = "translate"
LookedUp(p) == pc[p] = "done" /\ args[p].cmd = "lookup"

\* The invocation that ended in slot p repeats, with the same arguments, the
\* invocation before it, which succeeded; nothing ran in between
Repeated(p) ==
    /\ Translated(p)
    /\ prev[p] # NoPrev
    /\ prev[p].ret.status = "ok"

Tuple(s, a) == <<s.sid, s.text, a.model, a.code>>

\* C2: no remote request of an invocation carries a sentence whose
\* (sid, text, model, code) tuple an invocation that ended before it had
\* persisted a cache entry for
C2_AtMostOneOriginFetch ==
    \A p \in Procs :
        \A k \in 1..Len(io[p]) :
            io[p][k].op = "request" =>
                \A s \in Range(io[p][k].payload) : Tuple(s, args[p]) \notin known[p]

\* An invocation that requested one sentence while the tuple of its other
\* sentence was persisted already
C2_Witness ==
    \E p \in Procs :
        /\ Translated(p)
        /\ Requests(io[p]) # <<>>
        /\ \E s \in Range(args[p].sentences) : Tuple(s, args[p]) \in known[p]

RECURSIVE IsSubsequence(_, _)
IsSubsequence(a, b) ==
    IF a = <<>> THEN TRUE
    ELSE IF b = <<>> THEN FALSE
    ELSE IF Head(a) = Head(b) THEN IsSubsequence(Tail(a), Tail(b))
    ELSE IsSubsequence(a, Tail(b))

\* C4: the sids of the output are a subsequence of the sids of the input
\* sentences, whatever was a hit or a miss and whatever the reply's order
C4_OrderPreservation ==
    \A p \in Procs :
        (Translated(p) /\ ret[p].status = "ok") =>
            IsSubsequence(SidsOf(ret[p].output), SidsOf(args[p].sentences))

\* Two sentences, the first a hit and the second a miss, and a reply that
\* lists the second before the first
C4_Witness ==
    \E p \in Procs :
        /\ Translated(p)
        /\ ret[p].status = "ok"
        /\ Len(ret[p].output) = 2
        /\ Len(missing[p]) = 1
        /\ missing[p][1] = args[p].sentences[2]
        /\ SidsOf(parsed[p].items) =
              <<args[p].sentences[2].sid, args[p].sentences[1].sid>>

\* C5: when the reply is decoded, with usable records for the subset R of the
\* miss ids, the invocation does not fail for the ids left unresolved (only a
\* failed save makes it fail) and its output has exactly one entry for every
\* sentence that was a hit or whose id is in R, and none for the other ids
C5_PartialResolution ==
    \A p \in Procs :
        (Translated(p) /\ parsed[p].ok) =>
            LET missSids == Range(SidsOf(missing[p]))
                R == Range(SidsOf(parsed[p].items)) \cap missSids
                expected == SelectSeq(SidsOf(args[p].sentences),
                                      LAMBDA sid : sid \notin missSids \/ sid \in R)
            IN  /\ ret[p].status = "ok" \/ ret[p] = Err("persistence")
                /\ ret[p].status = "ok" => SidsOf(ret[p].output) = expected

\* Two misses of which the reply resolves one
C5_Witness ==
    \E p \in Procs :
        /\ Translated(p)
        /\ parsed[p].ok
        /\ Len(missing[p]) = 2
        /\ Range(SidsOf(parsed[p].items)) = {missing[p][2].sid}
        /\ ret[p].status = "ok"
        /\ SidsOf(ret[p].output) = <<missing[p][2].sid>>

\* C6 as stated: every entry an invocation writes into the cache has the
\* fingerprint of one of its miss sentences as key and, as value, the
\* translation of a decoded record with that sentence's id
C6_OnlyMissesCached ==
    \A p \in Procs :
        (Translated(p) /\ parsed[p].ok) =>
            \A key \in DOMAIN cache[p] :
                \/ /\ key \in DOMAIN before[p].entries
                   /\ cache[p][key] = before[p].entries[key]
                \/ \E s \in Range(missing[p]) :
                     /\ key = cache_key(s.sid, s.text, args[p].model, args[p].code)
                     /\ \E item \in Range(parsed[p].items) :
                          /\ item.sid = s.sid
                          /\ item.translation = cache[p][key]

\* C7 as stated: when the save after a remote reply fails, the translations
\* computed are still returned to the caller
C7_SaveFailureKeepsResults ==
    \A p \in Procs :
        (/\ Translated(p)
         /\ io[p] # <<>>
         /\ io[p][Len(io[p])].op = "save_cache"
         /\ io[p][Len(io[p])].outcome # "written") =>
            \A s \in Range(args[p].sentences) :
                Has(results[p], s.sid) =>
                    [sid |-> s.sid, translation |-> results[p][s.sid]]
                        \in Range(ret[p].output)

\* The key file holds no credential: it is absent, empty or only whitespace
CredentialMissing(file) ==
    \/ ~file.exists
    \/ \A k \in 1..Len(file.text) : file.text[k] \in {<<" ">>, <<"\n">>}

\* C8: a lookup, or a translation with at least one miss, loads the key; when
\* the key is absent, empty or only whitespace it fails with a credential
\* error, issues no remote request and leaves translation_cache.json as it was
C8_CredentialPrecondition ==
    \A p \in Procs :
        (LookedUp(p) \/ (Translated(p) /\ missing[p] # <<>>)) =>
            /\ Len(KeysRead(io[p])) = 1
            /\ CredentialMissing(KeysRead(io[p])[1]) =>
                   /\ ret[p] = Err("credential")
                   /\ Requests(io[p]) = <<>>
                   /\ cacheFile = before[p]

\* A translation with a hit and a miss that found the key file empty of a
\* credential, the cache holding entries
C8_Witness ==
    \E p \in Procs :
        /\ Translated(p)
        /\ Len(missing[p]) = 1
        /\ Len(args[p].sentences) = 2
        /\ CredentialMissing(KeysRead(io[p])[1])
        /\ KeysRead(io[p])[1].exists
        /\ before[p].state = "valid"
        /\ ret[p].status = "err"

C14_EmptyInput ==
    \A p \in Procs :
        (Translated(p) /\ args[p].sentences = <<>>) =>
            /\ ret[p] = Ok(<<>>)
            /\ io[p] = <<>>
            /\ cacheFile = before[p]

\* An empty call returned while the cache file cannot be decoded: a read of
\* the file would have failed the call
C14_Witness ==
    \E p \in Procs :
        /\ Translated(p)
        /\ args[p].sentences = <<>>
        /\ before[p].state = "corrupt"
        /\ ret[p] = Ok(<<>>)

\* C18 as stated: across invocations that do not overlap, an entry of the
\* snapshot an invocation found is in the snapshot it leaves, with the same
\* value (stated for the snapshots that decode)
C18_AppendOnly ==
    \A p \in Procs :
        (Translated(p) /\ before[p].state = "valid" /\ cacheFile.state = "valid") =>
            \A k \in DOMAIN before[p].entries :
                /\ k \in DOMAIN cacheFile.entries
                /\ cacheFile.entries[k] = before[p].entries[k]

\* The save operations of an invocation
Saves(events) == SelectSeq(events, LAMBDA e : e.op = "save_cache")

\* C19: an invocation of openrouter_translate saves at most once; the save is
\* its last operation and follows at once a request whose reply decoded; an
\* invocation that ended with a credential, transport or parse error, or had
\* no miss, leaves the cache file as it found it
C19_SingleSave ==
    \A p \in Procs :
        args[p].cmd = "translate" =>
            /\ Len(Saves(io[p])) <= 1
            /\ \A k \in 1..Len(io[p]) :
                  io[p][k].op = "save_cache" =>
                      /\ k = Len(io[p])
                      /\ k > 1
                      /\ io[p][k - 1].op = "request"
                      /\ io[p][k - 1].outcome = "decoded"
            /\ ( /\ Translated(p)
                 /\ \/ ret[p].error \in {"credential", "transport", "parse"}
                    \/ missing[p] = <<>> ) => cacheFile = before[p]

\* A snapshot with entries was found; the first reply did not decode, the
\* strict one did, and the one save followed it
C19_Witness ==
    \E p \in Procs :
        /\ Translated(p)
        /\ before[p].state = "valid"
        /\ before[p].entries # EmptyMap
        /\ Len(Requests(io[p])) = 2
        /\ Len(Saves(io[p])) = 1
        /\ cacheFile # before[p]

\* The sentences of the invocation in slot p whose key the snapshot it
\* loaded holds
HitSentences(p) ==
    {s \in Range(args[p].sentences) :
        cache_key(s.sid, s.text, args[p].model, args[p].code)
            \in DOMAIN before[p].entries}

\* C21 as stated: an invocation that returns gives, for every sentence that
\* was a hit in the snapshot it loaded, the value the snapshot stores,
\* whatever the reply holds for the misses
C21_HitValueIntegrity ==
    \A p \in Procs :
        (Translated(p) /\ ret[p].status = "ok" /\ before[p].state = "valid") =>
            \A s \in HitSentences(p) :
                [sid |-> s.sid,
                 translation |->
                    before[p].entries[cache_key(s.sid, s.text, args[p].model,
                                                args[p].code)]]
                    \in Range(ret[p].output)

\* Every sentence of the invocation in slot p, and there is one, is a hit in
\* the snapshot it loaded
AllHits(p) ==
    /\ args[p].sentences # <<>>
    /\ before[p].state = "valid"
    /\ HitSentences(p) = Range(args[p].sentences)

\* C22: an invocation whose sentences are all hits returns one output entry
\* per sentence, in order, and its only operation is the load of the snapshot:
\* the key is not read, nothing is requested, the snapshot is not written
C22_AllHits ==
    \A p \in Procs :
        (Translated(p) /\ AllHits(p)) =>
            /\ ret[p].status = "ok"
            /\ SidsOf(ret[p].output) = SidsOf(args[p].sentences)
            /\ Len(io[p]) = 1
            /\ io[p][1].op = "load_cache"
            /\ cacheFile = before[p]

\* An all-hit invocation returned while there is no key file
C22_Witness ==
    \E p \in Procs :
        /\ Translated(p)
        /\ AllHits(p)
        /\ ~keyFile.exists
        /\ ret[p].status = "ok"
        /\ Len(ret[p].output) = 1

----------------------------------------------------------------------------
(* SpecExtract: the extractor applied to every text of at most MaxTokens   *)
(* tokens of ExtractTokens.                                                *)

MaxTokens == 5

ExtractTokens ==
    { Fence, S(<<"j", "s", "o", "n">>), S(<<"\n">>), S(<<" ">>),
      S(<<"[">>), S(<<"]">>), S(<<"x">>) }

RECURSIVE TokenTexts(_)
TokenTexts(n) ==
    IF n = 0 THEN {<<>>}
    ELSE TokenTexts(n - 1) \cup
         {t \o tok : t \in TokenTexts(n - 1), tok \in ExtractTokens}

ExtractInputs == TokenTexts(MaxTokens)

InitExtract ==
    /\ InitOrch
    /\ keyFile = [exists |-> FALSE, text |-> <<>>]
    /\ input \in ExtractInputs
    /\ extracted = <<>>

ExtractArray ==
    /\ extracted = <<>>
    /\ extracted' = <<extract_json_array(input)>>
    /\ UNCHANGED input
    /\ UNCHANGED orchVars
    /\ UNCHANGED storeVars

NextExtract == ExtractArray

SpecExtract == InitExtract /\ [][NextExtract]_vars

----------------------------------------------------------------------------
(* C10: the fallback chain as the specification words it, stated over the  *)
(* text itself and not through the code's control flow.                    *)

\* The interiors a json-tagged fence can have: the text between the first
\* json tag and a closing fence after it, trimmed.  Which closing fence ends
\* the block is left open here.
TaggedInteriors(t) ==
    LET tags == Occurrences(t, JsonFence) IN
    IF tags = {} THEN {}
    ELSE { Trim(Slice(t, Min(tags) + 7, e)) :
             e \in {o \in Occurrences(t, Fence) : o >= Min(tags) + 7} }

\* The first generic fenced block: from the first fence to the next one.
GenericBlocks(t) ==
    LET opens == Occurrences(t, Fence) IN
    IF opens = {} THEN {}
    ELSE LET closes == {o \in opens : o >= Min(opens) + 3} IN
         IF closes = {} THEN {}
         ELSE {Slice(t, Min(opens) + 3, Min(closes))}

\* A block's interior: what follows its first line (the optional language
\* tag) when it has several lines, the block itself otherwise; trimmed.
BlockInterior(block) ==
    LET newlines == {i \in 1..Len(block) : block[i] = <<"\n">>} IN
    IF newlines = {} THEN Trim(block)
    ELSE Trim(SubSeq(block, Min(newlines) + 1, Len(block)))

BracketSpans(t) ==
    LET opens == {i \in 1..Len(t) : t[i] = <<"[">>}
        closes == {i \in 1..Len(t) : t[i] = <<"]">>}
    IN  IF opens = {} \/ closes = {} \/ Min(opens) > Max(closes) THEN {}
        ELSE {SubSeq(t, Min(opens), Max(closes))}

\* The results the chain allows for a text: those of its first applicable
\* strategy.
ChainResults(text) ==
    LET t == Trim(text) IN
    IF t # <<>> /\ t[1] = <<"[">> THEN {t}
    ELSE IF TaggedInteriors(t) # {} THEN TaggedInteriors(t)
    ELSE IF GenericBlocks(t) # {} THEN {BlockInterior(b) : b \in GenericBlocks(t)}
    ELSE IF BracketSpans(t) # {} THEN BracketSpans(t)
    ELSE {t}

\* C10: for every input text, extract_json_array returns the result of the
\* first applicable strategy of the chain: (1) the trimmed text when it starts
\* with [, (2) the interior of a json-tagged fence, else of the first generic
\* fence, (3) the span from the first [ to the last ], (4) the trimmed text.
C10_FallbackChain ==
    extracted # <<>> => extracted[1] \in ChainResults(input)

\* The closing fences that can end the block of the first json tag: those at
\* or after the end of the tag
ClosingFences(t) ==
    LET tags == Occurrences(t, JsonFence) IN
    IF tags = {} THEN {}
    ELSE {o \in Occurrences(t, Fence) : o >= Min(tags) + 7}

\* C15: when the text holds a json-tagged fence, the extractor returns the
\* trimmed text between the tag and the first closing fence after it, whether
\* or not a newline follows that fence.  Stated for the texts that do not
\* start with [ and whose first closing fence does not follow the tag at once
\* (the empty block is the subject of C10).
C15_TaggedFenceEnd ==
    extracted # <<>> =>
        LET t == Trim(input)
            tag == Min(Occurrences(t, JsonFence))
        IN  ( /\ ~StartsWith(t, S(<<"[">>))
              /\ ClosingFences(t) # {}
              /\ Min(ClosingFences(t)) > tag + 7 ) =>
                extracted[1] = Trim(Slice(t, tag + 7, Min(ClosingFences(t))))

----------------------------------------------------------------------------
(* SpecModes: both modes of the extractor applied to the same text, in    *)
(* array mode as it is and in object mode with { and } for [ and ].        *)

ToBraces(text) ==
    [i \in 1..Len(text) |->
        IF text[i] = <<"[">> THEN <<"{">>
        ELSE IF text[i] = <<"]">> THEN <<"}">>
        ELSE text[i]]

InitModes ==
    /\ InitOrch
    /\ keyFile = [exists |-> FALSE, text |-> <<>>]
    /\ input \in ExtractInputs
    /\ extracted = <<>>

ExtractBoth ==
    /\ extracted = <<>>
    /\ extracted' = <<[array |-> extract_json_array(input),
                       object |-> extract_json_object(ToBraces(input))]>>
    /\ UNCHANGED input
    /\ UNCHANGED orchVars
    /\ UNCHANGED storeVars

NextModes == ExtractBoth

SpecModes == InitModes /\ [][NextModes]_vars

\* C16: object mode returns what array mode returns on the same text with
\* brackets for braces, so also the interior of the first generic fenced block
\* of a text without a json tag
C16_SameAlgorithm ==
    extracted # <<>> => extracted[1].object = ToBraces(extracted[1].array)

----------------------------------------------------------------------------
(* SpecDecode: parse_translation_json applied to every JSON array of at    *)
(* most MaxRecords records of DecodeRecords.                               *)

\* A record of a reply: its sid and, under the name field, the translated
\* text value; or no translated text: the member is absent, is null, or the
\* only other member is one the decoder does not know ("note")
DecodeRecords ==
    [sid : Sids, value : Translations,
     field : {"translation", "translated_text", "text", "translated"}]
    \cup [sid : Sids, field : {"absent", "null", "note"}, value : {<<>>}]

\* The JSON object of a record
RecordMembers(r) ==
    <<Member("sid", "str", r.sid)>> \o
    ( IF r.field = "absent" THEN <<>>
      ELSE IF r.field = "null" THEN <<Member("translation", "null", <<>>)>>
      ELSE <<Member(r.field, "str", r.value)>> )

RecordsText(records) ==
    ArrayText([k \in 1..Len(records) |-> RecordMembers(records[k])])

InitDecode ==
    /\ InitOrch
    /\ keyFile = [exists |-> FALSE, text |-> <<>>]
    /\ input \in SeqsUpTo(DecodeRecords, MaxRecords)
    /\ extracted = <<>>

DecodeArray ==
    /\ extracted = <<>>
    /\ extracted' = <<parse_translation_json(RecordsText(input))>>
    /\ UNCHANGED input
    /\ UNCHANGED orchVars
    /\ UNCHANGED storeVars

NextDecode == DecodeArray

SpecDecode == InitDecode /\ [][NextDecode]_vars

\* C11: for a JSON array of records, parse_translation_json succeeds and
\* yields, in array order, one (sid, text) result for each record that
\* carries the translated text under one of the accepted names, the same
\* whichever name is used; a record without translated text is omitted and
\* does not make the batch fail
C11_FlexibleDecode ==
    extracted # <<>> =>
        LET carrying == SelectSeq(input, LAMBDA r : r.value # <<>>) IN
        /\ extracted[1].ok
        /\ extracted[1].items =
              [k \in 1..Len(carrying) |->
                  [sid |-> carrying[k].sid, translation |-> carrying[k].value]]

\* Two records, the first with its text under the name text, the second with
\* a null translation: one result
C11_Witness ==
    /\ extracted # <<>>
    /\ Len(input) = 2
    /\ input[1].field = "text"
    /\ input[2].field = "null"
    /\ Len(extracted[1].items) = 1

----------------------------------------------------------------------------
(* SpecOverlap: two invocations of openrouter_translate at once.  The      *)
(* command is async and its invocations interleave at every file and       *)
(* network operation.  fs::write (line 121) is two operations: File::create *)
(* creates the file or truncates it to length 0, then write_all writes the *)
(* text from offset 0; another invocation can run between the two.         *)

\* The length of serde_json::to_string_pretty(cache), line 120: the braces
\* and the field name, and one line per entry
RECURSIVE SerializedLength(_)
SerializedLength(entries) ==
    IF DOMAIN entries = {} THEN 19
    ELSE LET k == CHOOSE key \in DOMAIN entries : TRUE
             rest == [key \in DOMAIN entries \ {k} |-> entries[key]]
         IN  Len(k) + Len(entries[k]) + 12 + SerializedLength(rest)

\* The length of the file: a file that is not the text of a cache is the
\* empty file File::create leaves, or holds the start of one text and the
\* tail of the longer text, of entries, that was written before it
FileLength(file) ==
    IF file.state = "absent" THEN 0
    ELSE IF file.state = "corrupt" /\ file.entries = EmptyMap THEN 0
    ELSE SerializedLength(file.entries)

\* line 121, write_all: the text replaces the first bytes of the file; what
\* the file held beyond the text's length stays
write_all(file, entries) ==
    IF SerializedLength(entries) >= FileLength(file)
    THEN [state |-> "valid", entries |-> entries]
    ELSE [state |-> "corrupt", entries |-> file.entries]

\* A save that reads the file again and keeps the entries it finds there
SaveBeginMerging(p) ==
    /\ pc[p] = "save"
    /\ LET a == args[p]
           merged == MergeTranslations(parsed[p].items, missing[p], a.model, a.code,
                                       [cache |-> cache[p], results |-> results[p]])
       IN  /\ cache' = [cache EXCEPT ![p] = merged.cache @@ cacheFile.entries]
           /\ results' = [results EXCEPT ![p] = merged.results]
    /\ cacheFile' = [state |-> "corrupt", entries |-> EmptyMap]
    /\ pc' = [pc EXCEPT ![p] = "writing"]
    /\ UNCHANGED <<keyFile, args, missing, parsed, io, ret, calls, prev, before,
                   persisted, known, input, extracted, storeVars>>

\* lines 474-484 and 115-121: merge the translations; create the directory
\* and create or truncate the file, or fail before the file is touched
SaveBegin(p) ==
    /\ pc[p] = "save"
    /\ LET a == args[p]
           merged == MergeTranslations(parsed[p].items, missing[p], a.model, a.code,
                                       [cache |-> cache[p], results |-> results[p]])
       IN  /\ cache' = [cache EXCEPT ![p] = merged.cache]
           /\ results' = [results EXCEPT ![p] = merged.results]
    /\ \E outcome \in {"opened", "untouched"} :
         IF outcome = "opened"
         THEN /\ cacheFile' = [state |-> "corrupt", entries |-> EmptyMap]
              /\ pc' = [pc EXCEPT ![p] = "writing"]
              /\ UNCHANGED <<io, ret>>
         ELSE /\ io' = [io EXCEPT ![p] =
                          Append(@, IoEvent("save_cache", "", <<>>, "untouched"))]
              /\ ret' = [ret EXCEPT ![p] = Err("persistence")]
              /\ pc' = [pc EXCEPT ![p] = "done"]
              /\ UNCHANGED cacheFile
    /\ UNCHANGED <<keyFile, args, missing, parsed, calls, prev, before,
                   persisted, known, input, extracted, storeVars>>

\* lines 121 and 488-498: write the text, or fail while writing it; build
\* the output
SaveEnd(p) ==
    /\ pc[p] = "writing"
    /\ \E outcome \in {"written", "truncated"} :
         /\ io' = [io EXCEPT ![p] =
                     Append(@, IoEvent("save_cache", "", <<>>, outcome))]
         /\ IF outcome = "written"
            THEN /\ cacheFile' = write_all(cacheFile, cache[p])
                 /\ ret' = [ret EXCEPT ![p] =
                              Ok(Assemble(args[p].sentences, results[p]))]
                 /\ persisted' = persisted \cup
                       MergedTuples(parsed[p].items, missing[p],
                                    args[p].model, args[p].code)
            ELSE /\ cacheFile' = [state |-> "corrupt", entries |-> cacheFile.entries]
                 /\ ret' = [ret EXCEPT ![p] = Err("persistence")]
                 /\ UNCHANGED persisted
    /\ pc' = [pc EXCEPT ![p] = "done"]
    /\ UNCHANGED <<keyFile, args, cache, results, missing, parsed, calls, prev,
                   before, known, input, extracted, storeVars>>

\* SpecOverlap has one invocation per slot, both for the same model (their
\* fingerprints can coincide), of at most MaxOverlapSentences sentences, its
\* replies of at most MaxOverlapRecords usable records
MaxOverlapSentences == 1
MaxOverlapRecords == 1

OverlapTranslate(p) ==
    /\ pc[p] = "idle"
    /\ Translate(p)
    /\ \A q \in Procs \ {p} :
         args[q].cmd = "translate" => args'[p].model = args[q].model
    /\ Len(args'[p].sentences) <= MaxOverlapSentences

OverlapRequest(p) ==
    /\ Request(p)
    /\ Len(parsed'[p].items) <= MaxOverlapRecords

OverlapRetry(p) ==
    /\ Retry(p)
    /\ Len(parsed'[p].items) <= MaxOverlapRecords

InitOverlap ==
    /\ InitOrch
    /\ load_openrouter_key(keyFile).ok
    /\ input = <<>>
    /\ extracted = <<>>

NextOverlap ==
    \E p \in Procs :
        \/ OverlapTranslate(p)
        \/ LoadCache(p)
        \/ LoadKey(p)
        \/ OverlapRequest(p)
        \/ OverlapRetry(p)
        \/ SaveBegin(p)
        \/ SaveEnd(p)

SpecOverlap == InitOverlap /\ [][NextOverlap]_vars

\* The file an invocation's load_cache read
Loaded(p) ==
    SelectSeq(io[p], LAMBDA e : e.op = "load_cache")[1].payload[1]

\* The keys of the entries an invocation made from its reply
NewKeys(p) ==
    {cache_key(t[1], t[2], t[3], t[4]) :
        t \in MergedTuples(parsed[p].items, missing[p], args[p].model, args[p].code)}

\* The write that ends a save of invocation p, which returns without error
SaveCompletes(p) ==
    /\ pc[p] = "writing"
    /\ pc'[p] = "done"
    /\ ret'[p].status = "ok"

\* The invocation's save wrote its whole text
Saved(p) ==
    /\ io[p] # <<>>
    /\ io[p][Len(io[p])].op = "save_cache"
    /\ io[p][Len(io[p])].outcome = "written"

\* The snapshot is the map of invocation p: the keys of the snapshot it
\* loaded and of its own new entries, the loaded values for the others
SnapshotOf(file, p) ==
    /\ file.state = "valid"
    /\ DOMAIN file.entries = DOMAIN Loaded(p).entries \cup NewKeys(p)
    /\ \A k \in DOMAIN Loaded(p).entries \ NewKeys(p) :
          file.entries[k] = Loaded(p).entries[k]

\* C12: after two overlapping invocations both saved and finished, the
\* snapshot is exactly the map one of them wrote, its loaded snapshot plus its
\* own new entries, with nothing merged from the other
C12_LastWriterWins ==
    (\A p \in Procs : Translated(p) /\ Saved(p)) =>
        \E p \in Procs : SnapshotOf(cacheFile, p)

\* What holds of the saves one at a time: a save that completes with no text
\* of another save written since it truncated the file leaves a well-formed
\* snapshot, and a well-formed snapshot left by a completed save is that
\* invocation's map, whatever the other invocation had saved meanwhile
UninterruptedSaveWins ==
    [][\A p \in Procs :
          SaveCompletes(p) =>
              /\ FileLength(cacheFile) = 0 => cacheFile'.state = "valid"
              /\ cacheFile'.state = "valid" => SnapshotOf(cacheFile', p)]_vars

\* Both invocations loaded the same snapshot, missed on the same sentence and
\* requested it; both saved; the snapshot is the map of the first, and the
\* translation the second saved is not in it
LostUpdate ==
    /\ \A p \in Procs : Translated(p) /\ ret[p].status = "ok"
    /\ missing[1] # <<>>
    /\ missing[1] = missing[2]
    /\ Loaded(1) = Loaded(2)
    /\ Requests(io[1]) # <<>>
    /\ Requests(io[2]) # <<>>
    /\ cacheFile = [state |-> "valid", entries |-> cache[1]]
    /\ cache[2] # cache[1]

\* C17 as stated: no load_cache observes an empty or partly written file,
\* also when it overlaps a save of another invocation
C17_AtomicOverwrite ==
    \A p \in Procs :
        \A e \in Range(io[p]) :
            e.op = "load_cache" => e.payload[1].state # "corrupt"

----------------------------------------------------------------------------
(* The fingerprint alone: cache_key applied to two inputs *)

\* Ids with and without a document prefix, and names holding the separator
KeySids == {S(<<"a">>), S(<<"a", ":", "b">>), S(<<"a", "|", "a">>),
            S(<<"a", "|", "a", ":", "b">>)}
KeyModels == {S(<<"m">>), S(<<"m", "|", "n">>)}
KeyCodes == {S(<<"n">>), S(<<"n", "|", "n">>)}
KeyInputs == [sid : KeySids, text : Texts, model : KeyModels, code : KeyCodes]
KeyFields == {"sid", "text", "model", "code"}

InitKey ==
    /\ InitOrch
    /\ keyFile = [exists |-> FALSE, text |-> <<>>]
    /\ input \in [1..2 -> KeyInputs]
    /\ extracted = <<>>

\* lines 431-452: the key of the first input is cached; the second input is
\* looked up under its own model and language code
FingerprintBoth ==
    /\ extracted = <<>>
    /\ LET a == input[1]
           b == input[2]
           first == cache_key(a.sid, a.text, a.model, a.code)
           second == cache_key(b.sid, b.text, b.model, b.code)
           cached == Insert(EmptyMap, first, S(<<"x">>))
       IN  extracted' =
             <<[first |-> first, second |-> second,
                misses |-> Misses(<<[sid |-> b.sid, text |-> b.text]>>,
                                  cached, b.model, b.code)]>>
    /\ UNCHANGED input
    /\ UNCHANGED orchVars
    /\ UNCHANGED storeVars

NextKey == FingerprintBoth

SpecKey == InitKey /\ [][NextKey]_vars

\* The components in which the two inputs differ
Differing == {f \in KeyFields : input[1][f] # input[2][f]}

\* C13: equal inputs give the same key; inputs that differ in exactly one of
\* sentence id, source text, model and language code give different keys, so
\* a sentence whose text, model or language code changed misses the entry
\* cached for it before
C13_FingerprintInvalidation ==
    extracted # <<>> =>
        /\ Differing = {} => extracted[1].first = extracted[1].second
        /\ Cardinality(Differing) = 1 =>
              /\ extracted[1].first # extracted[1].second
              /\ extracted[1].misses =
                    <<[sid |-> input[2].sid, text |-> input[2].text]>>

\* Only the model differs, and it holds the separator; the second input misses
C13_Witness ==
    /\ extracted # <<>>
    /\ Differing = {"model"}
    /\ input[2].model = S(<<"m", "|", "n">>)
    /\ extracted[1].first # extracted[1].second
    /\ extracted[1].misses # <<>>

----------------------------------------------------------------------------
(* SpecSnippet: the two decodes applied to texts that are not JSON, of     *)
(* lengths around the snippet limit.  A str is UTF-8: its length and its   *)
(* slice offsets count bytes, and a character takes one to four of them.   *)

\* line 400: the snippet limit, in bytes
SnippetBytes == 200

\* Characters of one, two, three and four bytes: q, U+00E9, U+8A9E, U+1F600
Characters == {"q", "U+00E9", "U+8A9E", "U+1F600"}

\* char::len_utf8
len_utf8(unit) ==
    CASE unit = <<"U+00E9">> -> 2
      [] unit = <<"U+8A9E">> -> 3
      [] unit = <<"U+1F600">> -> 4
      [] OTHER -> 1

\* str::len: the length in bytes
RECURSIVE ByteLen(_)
ByteLen(s) ==
    IF s = <<>> THEN 0 ELSE len_utf8(Head(s)) + ByteLen(Tail(s))

\* The number of leading characters of s that end within its first n bytes
RECURSIVE CharsWithin(_, _)
CharsWithin(s, n) ==
    IF s = <<>> \/ len_utf8(Head(s)) > n THEN 0
    ELSE 1 + CharsWithin(Tail(s), n - len_utf8(Head(s)))

\* str::is_char_boundary
is_char_boundary(s, n) ==
    ByteLen(SubSeq(s, 1, CharsWithin(s, n))) = n

\* lines 399-405: &s[..200] panics when byte 200 is inside a character
truncate_for_error(s) ==
    IF ByteLen(s) > SnippetBytes
    THEN IF is_char_boundary(s, SnippetBytes)
         THEN [panic |-> FALSE,
               text |-> SubSeq(s, 1, CharsWithin(s, SnippetBytes)) \o S(<<".", ".", ".">>)]
         ELSE [panic |-> TRUE, text |-> <<>>]
    ELSE [panic |-> FALSE, text |-> s]

\* How a decode ends: with its value, with an error value that carries the
\* snippet, or in a panic
Decoded == [kind |-> "ok", snippet |-> <<>>]
Failed(json_content) ==
    IF truncate_for_error(json_content).panic
    THEN [kind |-> "panic", snippet |-> <<>>]
    ELSE [kind |-> "err", snippet |-> truncate_for_error(json_content).text]

\* lines 333-339: the error of parse_translation_json
TranslationDecodeEnd(content) ==
    IF parse_translation_json(content).ok THEN Decoded
    ELSE Failed(extract_json_array(content))

\* lines 514-518: the error of the word-lookup decode
LookupDecodeEnd(content) ==
    IF parse_word_lookup(content).ok THEN Decoded
    ELSE Failed(extract_json_object(content))

MaxPrefix == 3
MaxRun == 201

Repeat(unit, n) == [i \in 1..n |-> unit]

\* A run of one character after a few one-byte characters
SnippetInputs ==
    {Repeat(<<"q">>, k) \o Repeat(<<c>>, n) :
        k \in 0..MaxPrefix, c \in Characters, n \in 0..MaxRun}

InitSnippet ==
    /\ InitOrch
    /\ keyFile = [exists |-> FALSE, text |-> <<>>]
    /\ input \in SnippetInputs
    /\ extracted = <<>>

DecodeBoth ==
    /\ extracted = <<>>
    /\ extracted' = <<[translate |-> TranslationDecodeEnd(input),
                       lookup |-> LookupDecodeEnd(input)]>>
    /\ UNCHANGED input
    /\ UNCHANGED orchVars
    /\ UNCHANGED storeVars

NextSnippet == DecodeBoth

SpecSnippet == InitSnippet /\ [][NextSnippet]_vars

\* C20 as stated: for every text that is not JSON of the expected shape,
\* whatever its length and characters, both decodes end with an error value
\* that carries a snippet of the text; neither panics
C20_ParseErrorIsValue ==
    extracted # <<>> =>
        \A end \in {extracted[1].translate, extracted[1].lookup} :
            /\ end.kind = "err"
            /\ Len(end.snippet) <= SnippetBytes + 3
            /\ \A i \in 1..Len(end.snippet) :
                  i <= Len(input) /\ i <= Len(end.snippet) - 3 =>
                      end.snippet[i] = input[i]

----------------------------------------------------------------------------
(* SpecBooks: the recent-books commands, in any order, from no file *)

InitBooks ==
    /\ InitOrch
    /\ keyFile = [exists |-> FALSE, text |-> <<>>]
    /\ input = <<>>
    /\ extracted = <<>>

NextBooks ==
    \/ AddRecentBook
    \/ UpdateBookProgress
    \/ RemoveRecentBook

SpecBooks == InitBooks /\ [][NextBooks]_vars

\* C23: the persisted list holds at most RecentLimit books (50 in the code),
\* no two of them with the same id or the same file_path; an
\* update_book_progress for an id that no book has, once it returned, leaves
\* every book as it was
C23_RecentBooks ==
    /\ booksFile.state = "valid" =>
          /\ Len(booksFile.books) <= RecentLimit
          /\ \A i, j \in 1..Len(booksFile.books) :
                i # j =>
                    /\ booksFile.books[i].id # booksFile.books[j].id
                    /\ booksFile.books[i].file_path # booksFile.books[j].file_path
    /\ ( /\ last.cmd = "update_book_progress"
         /\ last.ret = "ok"
         /\ \A k \in 1..Len(last.before) : last.before[k].id # last.id ) =>
            booksFile.books = last.before

\* The list was full; a book with a new id and a new path was added, the
\* list is still full and holds it
C23_Witness ==
    /\ last.cmd = "add_recent_book"
    /\ last.ret = "ok"
    /\ Len(last.before) = RecentLimit
    /\ \A k \in 1..Len(last.before) :
          last.before[k].id # last.id /\ last.before[k].file_path # last.file_path
    /\ Len(booksFile.books) = RecentLimit
    /\ \E k \in 1..Len(booksFile.books) : booksFile.books[k].id = last.id

----------------------------------------------------------------------------
(* SpecVocabulary: the vocabulary commands, in any order, from no file *)

InitVocabulary ==
    /\ InitOrch
    /\ keyFile = [exists |-> FALSE, text |-> <<>>]
    /\ input = <<>>
    /\ extracted = <<>>

NextVocabulary ==
    \/ AddVocabularyWord
    \/ RemoveVocabularyWord
    \/ IsWordInVocabulary

SpecVocabulary == InitVocabulary /\ [][NextVocabulary]_vars

\* Two words are equal ignoring case: letter by letter they are the same or
\* the two cases of one letter
CasePairs == {{<<"a">>, <<"A">>}, {<<"b">>, <<"B">>}}
EqualIgnoringCase(v, w) ==
    /\ Len(v) = Len(w)
    /\ \A i \in 1..Len(v) : v[i] = w[i] \/ {v[i], w[i]} \in CasePairs

\* C24: no two entries of the persisted list have words equal ignoring case;
\* adding a word that is present ignoring case leaves the list as it was; once
\* remove_vocabulary_word(w) returned, is_word_in_vocabulary(w) is false
C24_VocabularyUnique ==
    /\ vocabFile.state = "valid" =>
          \A i, j \in 1..Len(vocabFile.entries) :
              i # j => ~EqualIgnoringCase(vocabFile.entries[i].word,
                                          vocabFile.entries[j].word)
    /\ ( /\ last.cmd = "add_vocabulary_word"
         /\ \E k \in 1..Len(last.before) :
               EqualIgnoringCase(last.before[k].word, last.word) ) =>
            /\ last.ret = "ok"
            /\ vocabFile.entries = last.before
    /\ (last.cmd = "remove_vocabulary_word" /\ last.ret = "ok") =>
            is_word_in_vocabulary(vocabFile, last.word) =
                [ok |-> TRUE, value |-> FALSE]

\* A word was added whose other case the list holds, next to another word;
\* the list is as it was
C24_Witness ==
    /\ last.cmd = "add_vocabulary_word"
    /\ last.ret = "ok"
    /\ Len(last.before) = 2
    /\ \E k \in 1..Len(last.before) :
          /\ last.before[k].word # last.word
          /\ EqualIgnoringCase(last.before[k].word, last.word)
    /\ vocabFile.entries = last.before

====
